---------------------------- MODULE Spec2Model ----------------------------
(***************************************************************************)
(* Model of the atomic execution protocol of ipc-atomic-execution:        *)
(*   - the coordinator actor (src/src/lib.rs),                             *)
(*   - the atomic execution registry and the lockable state               *)
(*     (src/src/atomic.rs),                                                *)
(*   - the fungible-token participant (src/examples/fungible-token).       *)
(*                                                                         *)
(* Conventions.                                                            *)
(*   - blake2b-256 is modelled as an injective function: a digest is the   *)
(*     tuple of the values that were hashed.                               *)
(*   - A handler is one action: the actor runtime runs an invocation to    *)
(*     completion, and an invocation that returns an error leaves the      *)
(*     actor state as it was.                                              *)
(*   - The gateway is an external collaborator: SendCross succeeds and     *)
(*     the gateway delivers the messages of each ordered pair of actors    *)
(*     in FIFO order, stamping the sender's address into `from`.           *)
(***************************************************************************)
EXTENDS Integers, Sequences, FiniteSets, TLC

VARIABLES
    registry,   \* coordinator: State.atomic_exec_registry, key -> entry
    part,       \* participants: address -> registry, slices and balances
    net,        \* gateway: <<src, dst>> -> sequence of messages in flight
    last,       \* the last invocation: its inputs, result and emitted messages
    hist        \* history of the run (what was emitted, applied, asserted)

vars == <<registry, part, net, last, hist>>

(***************************************************************************)
(* Bounds and constants                                                    *)
(***************************************************************************)
NumExecIds == 1
MaxNonce == 2
MaxQueue == 1
MaxTransfers == 1
NumValues == 2

METHOD_PRE_COMMIT == 2
METHOD_REVOKE == 3

\* IPC addresses of the actors that may originate a cross-message.
Addrs == {"a1", "a2", "a3"}
\* The participant sets used as `actors`.
ActorSets == {{"a1", "a2"}, {"a1", "a3"}}
\* Opaque exec ids handed to the coordinator.
ExecIds == 1..NumExecIds
\* Method numbers participants register for their callbacks.
Methods == {"m1", "m2"}
\* Immediate callers of the coordinator: the gateway and some other actor.
Callers == {"gateway", "other"}

None == "none"
EmptyMap == [x \in {} |-> None]

Put(f, k, v) == [x \in (DOMAIN f) \cup {k} |-> IF x = k THEN v ELSE f[x]]
Del(f, k) == [x \in (DOMAIN f) \ {k} |-> f[x]]

\* All orders in which a finite set can be iterated (HashMap iteration order).
Orders(S) == {o \in [1..Cardinality(S) -> S] : \A x \in S : \E i \in DOMAIN o : o[i] = x}

(***************************************************************************)
(* Coordinator state (State of src/src/lib.rs)                             *)
(***************************************************************************)
ipc_gateway_address == "gateway"

\* Mutant: the key is the exec id alone.
ExecKeyIdOnly(exec_id, actors) == <<exec_id, {}>>

\* The registry key: the pair (exec_id, actors).
ExecKey(exec_id, actors) == <<exec_id, actors>>

\* The entry modify_atomic_exec hands to its closure: the stored one, or an
\* empty one when the key is absent.
LoadEntry(reg, key) == IF key \in DOMAIN reg THEN reg[key] ELSE EmptyMap

\* modify_atomic_exec stores the entry its closure has changed.
StoreEntry(reg, key, entry) == Put(reg, key, entry)

\* Mutant: the entry of a completed execution is left in the registry.
rm_keeps_entry(reg, exec_id, actors) == reg
rm_atomic_exec(reg, exec_id, actors) == Del(reg, ExecKey(exec_id, actors))

CrossMsg(to, method, params) ==
    [to |-> to, method |-> method, params |-> params, wrapped |-> TRUE]

\* Mutant: the caller check is dropped.
validate_any_caller(caller, allowed) == TRUE

\* rt.validate_immediate_caller_is(once(&st.ipc_gateway_address))
validate_immediate_caller_is(caller, allowed) == caller = allowed

\* Mutant: the origin check is dropped.
OriginUnchecked(from, actors) == TRUE

\* actors.contains(&from)
OriginInActors(from, actors) == from \in actors

\* entry.insert(from, params.commit)
RecordPreCommit(entry, from, commit) == Put(entry, from, commit)

\* Mutant: one pre-commitment of a member is taken for all of them.
PreCommitAny(entry, actors) == \E actor \in actors : actor \in DOMAIN entry

\* for actor in actors { if !entry.contains_key(actor) { return Ok(None) } }
PreCommitComplete(entry, actors) == \A actor \in actors : actor \in DOMAIN entry

\* Mutant: every message carries the method of the first slot iterated.
CommitMsgsOneMethod(entry, exec_id, order) ==
    [i \in 1..Len(order) |-> CrossMsg(order[i], entry[order[1]], exec_id)]

\* entry.iter_mut().for_each(|(addr, method)| msgs.push(...)), in the order
\* `order` in which the map is iterated.
CommitMsgs(entry, exec_id, order) ==
    [i \in 1..Len(order) |-> CrossMsg(order[i], entry[order[i]], exec_id)]

Result(code, ret, msgs, reg) ==
    [code |-> code, ret |-> ret, msgs |-> msgs, registry |-> reg]

\* Actor::pre_commit. `order` is the iteration order of the entry.
pre_commit(reg, caller, from, actors, exec_id, commit, order) ==
    IF ~validate_immediate_caller_is(caller, ipc_gateway_address)
    THEN Result("Forbidden", None, << >>, reg)
    ELSE IF ~OriginInActors(from, actors)
    THEN Result("IllegalArgument", None, << >>, reg)
    ELSE LET key == ExecKey(exec_id, actors)
             entry == RecordPreCommit(LoadEntry(reg, key), from, commit)
             stored == StoreEntry(reg, key, entry)
         IN IF ~PreCommitComplete(entry, actors)
            THEN Result("Ok", "false", << >>, stored)
            ELSE Result("Ok", "true", CommitMsgs(entry, exec_id, order),
                        rm_atomic_exec(stored, exec_id, actors))

\* Mutant: revoke deletes every slot of the entry.
RemoveAllPreCommits(entry, from) == EmptyMap

\* entry.remove_entry(&from)
RemovePreCommit(entry, from) == Del(entry, from)

\* Mutant: the rollback is sent with the coordinator's own method number.
RollbackMsgsWrongMethod(from, rollback, exec_id) ==
    <<CrossMsg(from, "m1", exec_id)>>

\* Mutant: revoke prepares no message.
NoRollbackMsgs(from, rollback, exec_id) == << >>
\* The message revoke prepares: a rollback to the originating participant.
RollbackMsgs(from, rollback, exec_id) == <<CrossMsg(from, rollback, exec_id)>>

\* Actor::revoke
revoke(reg, caller, from, actors, exec_id, rollback) ==
    IF ~validate_immediate_caller_is(caller, ipc_gateway_address)
    THEN Result("Forbidden", None, << >>, reg)
    ELSE IF ~OriginInActors(from, actors)
    THEN Result("IllegalArgument", None, << >>, reg)
    ELSE LET key == ExecKey(exec_id, actors)
             entry == RemovePreCommit(LoadEntry(reg, key), from)
         IN Result("Ok", "unit", RollbackMsgs(from, rollback, exec_id),
                   StoreEntry(reg, key, entry))

\* The iteration orders of the entry as pre_commit sees it after the insert.
EntryOrders(reg, from, actors, exec_id) ==
    Orders((DOMAIN LoadEntry(reg, ExecKey(exec_id, actors))) \cup {from})

\* The record of an invocation of the coordinator; `existed` and `had` tell
\* whether the key had an entry, and the origin a slot in it, before the call.
Call(op, reg, caller, from, actors, exec_id, method, res) ==
    [op |-> op, caller |-> caller, from |-> from, actors |-> actors,
     exec_id |-> exec_id, method |-> method,
     existed |-> <<exec_id, actors>> \in DOMAIN reg,
     had |-> (<<exec_id, actors>> \in DOMAIN reg
              /\ from \in DOMAIN reg[<<exec_id, actors>>]),
     code |-> res.code, ret |-> res.ret, msgs |-> res.msgs]

NoCall == [op |-> None]

\* History of the coordinator: the keys for which a commit batch was ever
\* emitted, and the keys for which a Revoke was processed before any batch.
CoordHist(h, call) ==
    IF ~h.track \/ call.code # "Ok" THEN h
    ELSE LET key == ExecKey(call.exec_id, call.actors)
         IN IF call.op = "PreCommit"
            THEN IF call.ret = "true"
                 THEN [h EXCEPT !.committed = @ \cup {key}]
                 ELSE h
            ELSE IF key \in h.committed THEN h
                 ELSE [h EXCEPT !.revokedEarly = @ \cup {key}]

\* The history at the start: nothing recorded.  `preparedBy` and `revoked`
\* are pairs (participant, exec ID), `delivered` the cross-messages handed
\* to participants, recorded when `deliveries` is set.
InitHist(track) ==
    [track |-> track, committed |-> {}, revokedEarly |-> {}, minted |-> {},
     inits |-> 0, applied |-> {}, prepared |-> EmptyMap,
     preparedBy |-> {}, revoked |-> {}, deliveries |-> FALSE, delivered |-> {}]

(***************************************************************************)
(* CoordSpec: the coordinator driven by arbitrary invocations              *)
(***************************************************************************)
CoordInit ==
    /\ registry = EmptyMap
    /\ part = EmptyMap
    /\ net = EmptyMap
    /\ last = NoCall
    /\ hist = InitHist(FALSE)

InvokePreCommit ==
    \E caller \in Callers, from \in Addrs, actors \in ActorSets,
       exec_id \in ExecIds, commit \in Methods :
    \E order \in EntryOrders(registry, from, actors, exec_id) :
        LET res == pre_commit(registry, caller, from, actors, exec_id, commit, order)
            call == Call("PreCommit", registry, caller, from, actors, exec_id, commit, res)
        IN /\ registry' = res.registry
           /\ last' = call
           /\ hist' = CoordHist(hist, call)
           /\ UNCHANGED <<part, net>>

InvokeRevoke ==
    \E caller \in Callers, from \in Addrs, actors \in ActorSets,
       exec_id \in ExecIds, rollback \in Methods :
        LET res == revoke(registry, caller, from, actors, exec_id, rollback)
            call == Call("Revoke", registry, caller, from, actors, exec_id, rollback, res)
        IN /\ registry' = res.registry
           /\ last' = call
           /\ hist' = CoordHist(hist, call)
           /\ UNCHANGED <<part, net>>

CoordNext == InvokePreCommit \/ InvokeRevoke

CoordSpec == CoordInit /\ [][CoordNext]_vars

\* The same coordinator, with the history of its emissions recorded.
CoordHistInit ==
    /\ registry = EmptyMap
    /\ part = EmptyMap
    /\ net = EmptyMap
    /\ last = NoCall
    /\ hist = InitHist(TRUE)

CoordHistSpec == CoordHistInit /\ [][CoordNext]_vars


(***************************************************************************)
(* Lockable state (AtomicInputState of src/src/atomic.rs)                  *)
(*                                                                         *)
(* An Option is a sequence: << >> is None and <<x>> is Some(x).            *)
(***************************************************************************)
NoneOpt == << >>
Some(x) == <<x>>

\* Mutant: the content-id covers the payload and not the lock bit.
cid_of_payload(s) == <<"cid", FALSE, s.state>>
\* cid_from_cbor: the digest of the CBOR tuple (locked, state); the cached
\* cid is #[serde(skip)] and takes no part in it.
cid_from_cbor(s) == <<"cid", s.locked, s.state>>

\* AtomicInputState::new
new(state) == [cid |-> NoneOpt, locked |-> FALSE, state |-> state]

\* Mutant: get_mut hands the payload out and keeps the cached content-id.
get_mut_keeps_cid(s) ==
    IF s.locked THEN [ok |-> FALSE, s |-> s] ELSE [ok |-> TRUE, s |-> s]
\* AtomicInputState::get_mut: fails when locked, else invalidates the cache.
get_mut(s) ==
    IF s.locked THEN [ok |-> FALSE, s |-> s]
    ELSE [ok |-> TRUE, s |-> [s EXCEPT !.cid = NoneOpt]]

\* AtomicInputState::modify with a closure that stores `v`.
modify(s, v) ==
    LET g == get_mut(s)
    IN IF g.ok THEN [ok |-> TRUE, s |-> [g.s EXCEPT !.state = v]] ELSE g

\* Mutant: lock drops the cached content-id before it tests the lock bit.
lock_invalidates_first(s) ==
    [ok |-> ~s.locked, s |-> [s EXCEPT !.cid = NoneOpt, !.locked = TRUE]]
\* LockableState::lock
lock(s) ==
    IF s.locked THEN [ok |-> FALSE, s |-> s]
    ELSE [ok |-> TRUE, s |-> [s EXCEPT !.cid = NoneOpt, !.locked = TRUE]]

\* LockableState::unlock
unlock(s) ==
    IF s.locked THEN [ok |-> TRUE, s |-> [s EXCEPT !.cid = NoneOpt, !.locked = FALSE]]
    ELSE [ok |-> FALSE, s |-> s]

is_locked(s) == s.locked

\* AtomicInputState::flush on the blockstore `bs`, a map from content-ids to
\* blocks: put_cbor stores the CBOR tuple (locked, state) under its digest,
\* which is then cached.
flush(s, bs) ==
    LET c == <<"cid", s.locked, s.state>>
    IN [cid |-> c, s |-> [s EXCEPT !.cid = Some(c)],
        bs |-> Put(bs, c, [locked |-> s.locked, state |-> s.state])]

\* AtomicInputState::load: the block under content-id `c`, if any, with `c`
\* cached.
load(c, bs) ==
    IF c \notin DOMAIN bs THEN NoneOpt
    ELSE Some([cid |-> Some(c), locked |-> bs[c].locked, state |-> bs[c].state])
\* LockableState::cid: the cached value, or the computed one, then cached.
cid(s) ==
    IF s.cid # NoneOpt THEN [cid |-> s.cid[1], s |-> s]
    ELSE [cid |-> cid_from_cbor(s), s |-> [s EXCEPT !.cid = Some(cid_from_cbor(s))]]

(***************************************************************************)
(* Atomic execution registry (AtomicExecRegistry of src/src/atomic.rs)     *)
(*                                                                         *)
(* A registry is [nonce, input_ids, exec_ids]; the slices it works on are  *)
(* a map from slice names to lockable states.  The methods mutate both in  *)
(* place: an operator returns the registry and the slices as the call      *)
(* leaves them, also when it returns an error.                             *)
(*                                                                         *)
(* A panic site (assert!, unwrap) is a proof obligation of the code: the   *)
(* operator reports the obligations the call violates in `panics` and      *)
(* carries the data flow on, so that each obligation and the rest of the   *)
(* method can be examined apart.  The callers decide what a violated       *)
(* obligation does.  The assertion of init_atomic_exec tests the value     *)
(* Hamt::set returns for a key that was absent and fails on every fresh    *)
(* insert: it is kept as an obligation and the call goes on, or no         *)
(* execution could ever begin.  Any other panic aborts the invocation: the *)
(* call does not return and what it wrote is discarded.                    *)
(***************************************************************************)
\* Whether a call that violates the obligations `panics` aborts.
Aborts(panics) == panics \ {"input ID collision"} # {}

\* AtomicExecRegistry::new
new_registry == [nonce |-> 0, input_ids |-> EmptyMap, exec_ids |-> EmptyMap]

RegResult(code, ret, reg, slices, panics) ==
    [code |-> code, ret |-> ret, reg |-> reg, slices |-> slices, panics |-> panics]

\* The closures input_fn and output_fn of the callers: the input (and the
\* output made of it) names the slices of the execution.
input_fn(input) == input.state
output_fn(input) == input
output_state(output) == output.state

\* Mutant: the nonce is left out of the digest.
new_input_id_no_nonce(r, unlocked_state_cids, input) ==
    [id |-> <<"input", 0, unlocked_state_cids, input>>,
     reg |-> [r EXCEPT !.nonce = @ + 1]]

\* AtomicExecRegistry::new_input_id
new_input_id(r, unlocked_state_cids, input) ==
    [id |-> <<"input", r.nonce, unlocked_state_cids, input>>,
     reg |-> [r EXCEPT !.nonce = @ + 1]]

\* AtomicExecRegistry::compute_exec_id
compute_exec_id(input_ids) == <<"exec", input_ids>>

\* Mutant: the try_fold puts each content-id in front of the list.
RECURSIVE InitFoldPrepend(_, _, _, _, _)
InitFoldPrepend(sl, state, i, lock_now, v) ==
    IF i > Len(state) THEN [ok |-> TRUE, slices |-> sl, v |-> v]
    ELSE IF lock_now
         THEN LET l == lock(sl[state[i]])
              IN IF ~l.ok THEN [ok |-> FALSE, slices |-> sl, v |-> v]
                 ELSE InitFoldPrepend([sl EXCEPT ![state[i]] = l.s], state, i + 1, lock_now, v)
         ELSE LET c == cid(sl[state[i]])
              IN InitFoldPrepend([sl EXCEPT ![state[i]] = c.s], state, i + 1, lock_now,
                                 <<c.cid>> \o v)
\* The try_fold of init_atomic_exec over the slices `state`, from index i.
RECURSIVE InitFold(_, _, _, _, _)
InitFold(sl, state, i, lock_now, v) ==
    IF i > Len(state) THEN [ok |-> TRUE, slices |-> sl, v |-> v]
    ELSE IF lock_now
         THEN LET l == lock(sl[state[i]])
              IN IF ~l.ok THEN [ok |-> FALSE, slices |-> sl, v |-> v]
                 ELSE InitFold([sl EXCEPT ![state[i]] = l.s], state, i + 1, lock_now, v)
         ELSE LET c == cid(sl[state[i]])
              IN InitFold([sl EXCEPT ![state[i]] = c.s], state, i + 1, lock_now,
                          Append(v, c.cid))

\* assert!(v.is_some(), "input ID collision"), v the value m.set returns:
\* the value the key had before.
InputIdAssertion(v) == v # NoneOpt

\* AtomicExecRegistry::init_atomic_exec
init_atomic_exec(r, sl, state, input, lock_now) ==
    LET f == InitFold(sl, state, 1, lock_now, << >>)
    IN IF ~f.ok
       THEN RegResult("AlreadyLocked", NoneOpt, r, f.slices, {})
       ELSE LET n == new_input_id(r, f.v, input)
                v == IF n.id \in DOMAIN r.input_ids
                     THEN Some(r.input_ids[n.id]) ELSE NoneOpt
                entry == [unlocked_state_cids |-> f.v, input |-> input]
                reg == [n.reg EXCEPT !.input_ids = Put(@, n.id, entry)]
            IN RegResult("Ok", Some(n.id), reg, f.slices,
                         IF InputIdAssertion(v) THEN {} ELSE {"input ID collision"})

\* Mutant: cancel unlocks nothing.
UnlockNothing(sl, state, i) == sl
\* state_iter.for_each(|s| if s.is_locked() { s.unlock().unwrap() })
RECURSIVE UnlockLocked(_, _, _)
UnlockLocked(sl, state, i) ==
    IF i > Len(state) THEN sl
    ELSE IF is_locked(sl[state[i]])
         THEN UnlockLocked([sl EXCEPT ![state[i]] = unlock(@).s], state, i + 1)
         ELSE UnlockLocked(sl, state, i + 1)

\* Mutant: cancel leaves the input entry in the registry.
cancel_keeps_input(r, sl, input_id) ==
    IF input_id \notin DOMAIN r.input_ids
    THEN RegResult("UnknownInputID", NoneOpt, r, sl, {})
    ELSE RegResult("Ok", NoneOpt, r, UnlockLocked(sl, input_fn(r.input_ids[input_id].input), 1), {})

\* AtomicExecRegistry::cancel_atomic_exec
cancel_atomic_exec(r, sl, input_id) ==
    IF input_id \notin DOMAIN r.input_ids
    THEN RegResult("UnknownInputID", NoneOpt, r, sl, {})
    ELSE LET input == r.input_ids[input_id].input
             reg == [r EXCEPT !.input_ids = Del(@, input_id)]
         IN RegResult("Ok", NoneOpt, reg, UnlockLocked(sl, input_fn(input), 1), {})

\* Mutant: prepare locks the slices and compares nothing.
LockWithoutCompare(sl, state, i, cids, j) ==
    [eq |-> TRUE,
     slices |-> [s \in DOMAIN sl |->
                   IF (\E k \in 1..Len(state) : state[k] = s) /\ ~sl[s].locked
                   THEN lock(sl[s]).s ELSE sl[s]]]

\* state_iter.filter(|s| !s.is_locked()).map(|s| { cid; lock; cid }).eq(cids):
\* Iterator::eq draws from the left iterator first, which locks the slice,
\* and stops at the first difference.
RECURSIVE LockAndCompare(_, _, _, _, _)
LockAndCompare(sl, state, i, cids, j) ==
    IF i > Len(state) THEN [eq |-> j > Len(cids), slices |-> sl]
    ELSE IF is_locked(sl[state[i]])
         THEN LockAndCompare(sl, state, i + 1, cids, j)
         ELSE LET c == cid(sl[state[i]])
                  sl2 == [sl EXCEPT ![state[i]] = lock(c.s).s]
              IN IF j > Len(cids) THEN [eq |-> FALSE, slices |-> sl2]
                 ELSE IF c.cid # cids[j] THEN [eq |-> FALSE, slices |-> sl2]
                 ELSE LockAndCompare(sl2, state, i + 1, cids, j + 1)

\* assert!(v.is_none(), "exec ID collision")
ExecIdAssertion(v) == v = NoneOpt

\* AtomicExecRegistry::prepare_atomic_exec
prepare_atomic_exec(r, sl, own_input_id, input_ids) ==
    IF own_input_id \notin DOMAIN r.input_ids
    THEN RegResult("UnknownInputID", NoneOpt, r, sl, {})
    ELSE LET e == r.input_ids[own_input_id]
             r1 == [r EXCEPT !.input_ids = Del(@, own_input_id)]
             c == LockAndCompare(sl, input_fn(e.input), 1, e.unlocked_state_cids, 1)
         IN IF ~c.eq
            THEN RegResult("StateCidMismatch", NoneOpt, r1, c.slices, {})
            ELSE LET exec_id == compute_exec_id(input_ids)
                     v == IF exec_id \in DOMAIN r1.exec_ids
                          THEN Some(r1.exec_ids[exec_id]) ELSE NoneOpt
                     out == [output |-> output_fn(e.input)]
                     r2 == [r1 EXCEPT !.exec_ids = Put(@, exec_id, out)]
                 IN RegResult("Ok", Some(exec_id), r2, c.slices,
                              IF ExecIdAssertion(v) THEN {} ELSE {"exec ID collision"})

\* The surrounding application's apply_fn: it stores the next value into
\* the first slice of the execution, or fails.
ApplyNext(output, sl) ==
    IF output.state = << >> THEN [ok |-> TRUE, slices |-> sl]
    ELSE LET s == output.state[1]
             m == modify(sl[s], (sl[s].state + 1) % NumValues)
         IN [ok |-> m.ok, slices |-> [sl EXCEPT ![s] = m.s]]
ApplyFails(output, sl) == [ok |-> FALSE, slices |-> sl]
\* The surrounding application's rollback_fn: nothing to revert.
RollbackNothing(output, sl) == sl

\* State::transfer on the accounts `sl`.
transfer(sl, from, to, amount) ==
    IF sl[from].state < amount THEN [ok |-> FALSE, slices |-> sl]
    ELSE LET f == modify(sl[from], sl[from].state - amount)
             g == modify(sl[to], sl[to].state + amount)
         IN IF ~f.ok \/ ~g.ok THEN [ok |-> FALSE, slices |-> sl]
            ELSE [ok |-> TRUE, slices |-> [[sl EXCEPT ![from] = f.s] EXCEPT ![to] = g.s]]

\* apply_fn of the participant: the transfer of the prepared amount.
ApplyTransfer(output, sl) ==
    transfer(sl, output.state[1], output.data.to, output.data.amount)

\* The closures handed to commit_atomic_exec and rollback_atomic_exec, by
\* name: apply_fn gives [ok, slices], rollback_fn gives the slices.
apply_fn(f, output, sl) ==
    CASE f = "ApplyNext" -> ApplyNext(output, sl)
      [] f = "ApplyFails" -> ApplyFails(output, sl)
      [] f = "ApplyTransfer" -> ApplyTransfer(output, sl)

rollback_fn(f, output, sl) == RollbackNothing(output, sl)

\* state_iter.for_each(|s| s.unlock().unwrap()): the slices after it, and
\* whether an unwrap met an Err.
RECURSIVE UnlockAll(_, _, _, _)
UnlockAll(sl, state, i, panics) ==
    IF i > Len(state) THEN [slices |-> sl, panics |-> panics]
    ELSE LET u == unlock(sl[state[i]])
         IN UnlockAll([sl EXCEPT ![state[i]] = u.s], state, i + 1,
                      IF u.ok THEN panics ELSE panics \cup {"unlock of a state not locked"})

\* Mutant: commit runs apply_fn before it looks the exec ID up.
commit_applies_first(r, sl, exec_id, f) ==
    LET known == exec_id \in DOMAIN r.exec_ids
        output == IF known THEN r.exec_ids[exec_id].output
                  ELSE [state |-> <<"s1">>, data |-> "x"]
        u == IF known THEN UnlockAll(sl, output_state(output), 1, {})
             ELSE [slices |-> sl, panics |-> {}]
        a == apply_fn(f, output, u.slices)
    IN IF ~known THEN RegResult("UnknownExecID", NoneOpt, r, a.slices, {})
       ELSE RegResult(IF a.ok THEN "Ok" ELSE "ApplyError", NoneOpt,
                      [r EXCEPT !.exec_ids = Del(@, exec_id)], a.slices, u.panics)

\* Mutant: a commit whose apply_fn fails leaves the registry and the slices
\* as it found them.
commit_undone_on_error(r, sl, exec_id, f) ==
    IF exec_id \notin DOMAIN r.exec_ids
    THEN RegResult("UnknownExecID", NoneOpt, r, sl, {})
    ELSE LET output == r.exec_ids[exec_id].output
             reg == [r EXCEPT !.exec_ids = Del(@, exec_id)]
             u == UnlockAll(sl, output_state(output), 1, {})
             a == apply_fn(f, output, u.slices)
         IN IF a.ok THEN RegResult("Ok", NoneOpt, reg, a.slices, u.panics)
            ELSE RegResult("ApplyError", NoneOpt, r, sl, u.panics)
\* AtomicExecRegistry::commit_atomic_exec, f the name of the apply_fn.
commit_atomic_exec(r, sl, exec_id, f) ==
    IF exec_id \notin DOMAIN r.exec_ids
    THEN RegResult("UnknownExecID", NoneOpt, r, sl, {})
    ELSE LET output == r.exec_ids[exec_id].output
             reg == [r EXCEPT !.exec_ids = Del(@, exec_id)]
             u == UnlockAll(sl, output_state(output), 1, {})
             a == apply_fn(f, output, u.slices)
         IN RegResult(IF a.ok THEN "Ok" ELSE "ApplyError", NoneOpt, reg, a.slices, u.panics)

\* AtomicExecRegistry::rollback_atomic_exec, f the name of the rollback_fn.
rollback_atomic_exec(r, sl, exec_id, f) ==
    IF exec_id \notin DOMAIN r.exec_ids
    THEN RegResult("UnknownExecID", NoneOpt, r, sl, {})
    ELSE LET output == r.exec_ids[exec_id].output
             reg == [r EXCEPT !.exec_ids = Del(@, exec_id)]
             u == UnlockAll(sl, output_state(output), 1, {})
         IN RegResult("Ok", NoneOpt, reg, rollback_fn(f, output, u.slices), u.panics)

(***************************************************************************)
(* RegSpec: one registry and its slices, driven by arbitrary calls of the  *)
(* library (no actor runtime around it)                                    *)
(***************************************************************************)
Slices == {"s1", "s2"}
Values == 0..(NumValues - 1)
\* The sequences of distinct slices a caller may hand to init_atomic_exec
\* (the references are &mut: a slice occurs at most once).
SliceSeqs == {<<"s1">>, <<"s2">>, <<"s1", "s2">>}
Inputs == [state : SliceSeqs, data : {"x"}]

Range(f) == {f[x] : x \in DOMAIN f}

\* The input ID maps a caller may hand to prepare_atomic_exec.
RegInputIdMaps == [{"a1"} -> hist.minted]
RegExecIds == {compute_exec_id(m) : m \in RegInputIdMaps}

RegCall(op, arg, res) ==
    [op |-> op, arg |-> arg,
     code |-> IF Aborts(res.panics) THEN "Panic" ELSE res.code,
     ret |-> IF Aborts(res.panics) THEN NoneOpt ELSE res.ret,
     panics |-> res.panics]

RegInit ==
    /\ registry = EmptyMap
    /\ net = EmptyMap
    /\ last = NoCall
    /\ hist = InitHist(TRUE)
    /\ part = [a \in {"a1"} |-> [reg |-> new_registry,
                                 slices |-> [s \in Slices |-> new(0)]]]

RegApply(res, call) ==
    /\ part' = IF Aborts(res.panics) THEN part
               ELSE [part EXCEPT !["a1"] = [reg |-> res.reg, slices |-> res.slices]]
    /\ last' = call
    /\ UNCHANGED <<registry, net>>

RegInitExec ==
    \E input \in Inputs, lock_now \in BOOLEAN :
        LET p == part["a1"]
            res == init_atomic_exec(p.reg, p.slices, input.state, input, lock_now)
        IN /\ p.reg.nonce < MaxNonce
           /\ RegApply(res, RegCall("init", [input |-> input, lock_now |-> lock_now], res))
           /\ hist' = IF res.code = "Ok"
                      THEN [hist EXCEPT !.minted = @ \cup {res.ret[1]},
                                        !.inits = @ + 1]
                      ELSE hist

RegCancel ==
    \E input_id \in hist.minted :
        LET p == part["a1"]
            res == cancel_atomic_exec(p.reg, p.slices, input_id)
        IN /\ RegApply(res, RegCall("cancel", [input_id |-> input_id], res))
           /\ UNCHANGED hist

RegPrepare ==
    \E own_input_id \in hist.minted, input_ids \in RegInputIdMaps :
        LET p == part["a1"]
            res == prepare_atomic_exec(p.reg, p.slices, own_input_id, input_ids)
        IN /\ RegApply(res, RegCall("prepare", [own_input_id |-> own_input_id,
                                                 input_ids |-> input_ids], res))
           /\ UNCHANGED hist

RegCommit ==
    \E exec_id \in RegExecIds, apply_ok \in BOOLEAN :
        LET p == part["a1"]
            f == IF apply_ok THEN "ApplyNext" ELSE "ApplyFails"
            res == commit_atomic_exec(p.reg, p.slices, exec_id, f)
        IN /\ RegApply(res, RegCall("commit", [exec_id |-> exec_id,
                                                apply_ok |-> apply_ok], res))
           /\ UNCHANGED hist

RegRollback ==
    \E exec_id \in RegExecIds :
        LET p == part["a1"]
            res == rollback_atomic_exec(p.reg, p.slices, exec_id, "RollbackNothing")
        IN /\ RegApply(res, RegCall("rollback", [exec_id |-> exec_id], res))
           /\ UNCHANGED hist

\* The surrounding application modifies a slice (AtomicInputState::modify).
RegModify ==
    \E sid \in Slices, v \in Values :
        LET p == part["a1"]
            m == modify(p.slices[sid], v)
            sl == [p.slices EXCEPT ![sid] = m.s]
        IN /\ part' = [part EXCEPT !["a1"] = [reg |-> p.reg, slices |-> sl]]
           /\ last' = [op |-> "modify", arg |-> [slice |-> sid, value |-> v],
                       code |-> IF m.ok THEN "Ok" ELSE "StateLocked",
                       ret |-> NoneOpt, panics |-> {}]
           /\ UNCHANGED <<registry, net, hist>>

RegNext ==
    \/ RegInitExec
    \/ RegCancel
    \/ RegPrepare
    \/ RegCommit
    \/ RegRollback
    \/ RegModify

RegSpec == RegInit /\ [][RegNext]_vars

(***************************************************************************)
(* SliceSpec: one registry and one slice, with one more init than RegSpec  *)
(* and a record of the payloads at each successful prepare                 *)
(***************************************************************************)
MaxInits == 3
SliceInputs == [state : {<<"s1">>}, data : {"x"}]

SliceInitExec ==
    \E input \in SliceInputs, lock_now \in BOOLEAN :
        LET p == part["a1"]
            res == init_atomic_exec(p.reg, p.slices, input.state, input, lock_now)
        IN /\ p.reg.nonce < MaxInits
           /\ RegApply(res, RegCall("init", [input |-> input, lock_now |-> lock_now], res))
           /\ hist' = IF res.code = "Ok"
                      THEN [hist EXCEPT !.minted = @ \cup {res.ret[1]},
                                        !.inits = @ + 1]
                      ELSE hist

\* prepare_atomic_exec with input_ids naming own_input_id; a prepare that
\* returns Ok leaves the payloads of the slices in hist.prepared.
SlicePrepare ==
    \E own_input_id \in hist.minted :
        LET p == part["a1"]
            input_ids == [a \in {"a1"} |-> own_input_id]
            res == prepare_atomic_exec(p.reg, p.slices, own_input_id, input_ids)
            call == RegCall("prepare", [own_input_id |-> own_input_id,
                                        input_ids |-> input_ids], res)
        IN /\ RegApply(res, call)
           /\ hist' = IF call.code = "Ok"
                      THEN [hist EXCEPT !.prepared =
                               Put(@, call.ret[1], [s \in Slices |-> res.slices[s].state])]
                      ELSE hist

SliceModify ==
    \E v \in Values :
        LET p == part["a1"]
            m == modify(p.slices["s1"], v)
            sl == [p.slices EXCEPT !["s1"] = m.s]
        IN /\ part' = [part EXCEPT !["a1"] = [reg |-> p.reg, slices |-> sl]]
           /\ last' = [op |-> "modify", arg |-> [slice |-> "s1", value |-> v],
                       code |-> IF m.ok THEN "Ok" ELSE "StateLocked",
                       ret |-> NoneOpt, panics |-> {}]
           /\ UNCHANGED <<registry, net, hist>>

SliceNext ==
    \/ SliceInitExec
    \/ RegCancel
    \/ SlicePrepare
    \/ RegCommit
    \/ RegRollback
    \/ SliceModify

SliceSpec == RegInit /\ [][SliceNext]_vars

(***************************************************************************)
(* The fungible-token participant (src/examples/fungible-token)            *)
(*                                                                         *)
(* A participant is [reg, slices]: its registry and its accounts, each     *)
(* account a lockable balance.  Its handlers run in rt.transaction: when   *)
(* one returns an error the participant is left as it was.                 *)
(***************************************************************************)
Participants == {"a1", "a2", "a3"}
atomic_exec_coordinator == "coord"
COMMIT_ATOMIC_TRANSFER == "CommitAtomicTransfer"
ROLLBACK_ATOMIC_TRANSFER == "RollbackAtomicTransfer"

\* The input of an atomic transfer: AtomicTransfer {from, to, amount}; the
\* slice of the execution is the account `from`.
AtomicTransfer(from, to, amount) ==
    [state |-> <<from>>, data |-> [to |-> to, amount |-> amount]]

PartResult(code, ret, p, panics) == [code |-> code, ret |-> ret, part |-> p, panics |-> panics]

\* State::init_atomic_transfer
init_atomic_transfer(p, from, to, amount) ==
    IF p.slices[from].state < amount
    THEN PartResult("InsufficientBalance", NoneOpt, p, {})
    ELSE LET res == init_atomic_exec(p.reg, p.slices, <<from>>,
                                     AtomicTransfer(from, to, amount), TRUE)
         IN IF Aborts(res.panics) THEN PartResult("Panic", NoneOpt, p, res.panics)
            ELSE IF res.code # "Ok" THEN PartResult(res.code, NoneOpt, p, res.panics)
            ELSE PartResult("Ok", res.ret, [reg |-> res.reg, slices |-> res.slices],
                            res.panics)

\* State::prep_atomic_transfer, for the participant at address `self`.
prep_atomic_transfer(p, self, input_ids) ==
    IF self \notin DOMAIN input_ids
    THEN PartResult("MissingOwnInputID", NoneOpt, p, {})
    ELSE LET res == prepare_atomic_exec(p.reg, p.slices, input_ids[self], input_ids)
         IN IF Aborts(res.panics) THEN PartResult("Panic", NoneOpt, p, res.panics)
            ELSE IF res.code # "Ok" THEN PartResult(res.code, NoneOpt, p, res.panics)
            ELSE PartResult("Ok", res.ret, [reg |-> res.reg, slices |-> res.slices],
                            res.panics)

\* State::commit_atomic_transfer
commit_atomic_transfer(p, exec_id) ==
    LET res == commit_atomic_exec(p.reg, p.slices, exec_id, "ApplyTransfer")
    IN IF Aborts(res.panics) THEN PartResult("Panic", NoneOpt, p, res.panics)
       ELSE IF res.code # "Ok" THEN PartResult(res.code, NoneOpt, p, res.panics)
       ELSE PartResult("Ok", NoneOpt, [reg |-> res.reg, slices |-> res.slices],
                       res.panics)

\* State::rollback_atomic_transfer
rollback_atomic_transfer(p, exec_id) ==
    LET res == rollback_atomic_exec(p.reg, p.slices, exec_id, "RollbackNothing")
    IN IF Aborts(res.panics) THEN PartResult("Panic", NoneOpt, p, res.panics)
       ELSE IF res.code # "Ok" THEN PartResult(res.code, NoneOpt, p, res.panics)
       ELSE PartResult("Ok", NoneOpt, [reg |-> res.reg, slices |-> res.slices],
                       res.panics)

\* Actor::commit_atomic_transfer, the handler of the cross-message: the
\* error of the origin test is built by actor_error! and dropped, the
\* statement neither returns it nor applies `?` to it.
actor_commit_atomic_transfer(p, caller, from, exec_id) ==
    IF ~validate_immediate_caller_is(caller, ipc_gateway_address)
    THEN PartResult("Forbidden", NoneOpt, p, {})
    ELSE LET dropped == IF from # atomic_exec_coordinator
                        THEN Some("Forbidden") ELSE NoneOpt
         IN commit_atomic_transfer(p, exec_id)

\* Actor::rollback_atomic_transfer, the handler of the cross-message: the
\* origin test as in the commit handler.
actor_rollback_atomic_transfer(p, caller, from, exec_id) ==
    IF ~validate_immediate_caller_is(caller, ipc_gateway_address)
    THEN PartResult("Forbidden", NoneOpt, p, {})
    ELSE LET dropped == IF from # atomic_exec_coordinator
                        THEN Some("Forbidden") ELSE NoneOpt
         IN rollback_atomic_transfer(p, exec_id)
\* The wrapped cross-message a participant hands to the gateway for the
\* coordinator: PreCommitParams or RevokeParams under the method number.
CoordMsg(method, input_ids, exec_id, callback) ==
    [to |-> atomic_exec_coordinator, method |-> method,
     params |-> [actors |-> DOMAIN input_ids, exec_id |-> exec_id, callback |-> callback],
     wrapped |-> TRUE]

(***************************************************************************)
(* Spec: three participants, the gateway and the coordinator               *)
(***************************************************************************)
Pairs == {<<a, atomic_exec_coordinator>> : a \in Participants}
            \cup {<<atomic_exec_coordinator, a>> : a \in Participants}

\* The input ID maps handed to PrepareAtomicTransfer and AbortAtomicTransfer:
\* one input ID of each participant.
InputIdMaps == [Participants -> hist.minted]

PartCall(op, who, arg, res) ==
    [op |-> op, who |-> who, arg |-> arg, code |-> res.code, ret |-> res.ret,
     panics |-> res.panics]

Init ==
    /\ registry = EmptyMap
    /\ net = [pr \in Pairs |-> << >>]
    /\ last = NoCall
    /\ hist = InitHist(TRUE)
    /\ part = [a \in Participants |->
                 [reg |-> new_registry,
                  slices |-> [s \in Slices |-> new(IF s = "s1" THEN 1 ELSE 0)]]]

\* Actor::init_atomic_transfer, called by the owner of account `from`.
InitAtomicTransfer(a) ==
    \E from \in Slices :
        LET to == CHOOSE s \in Slices : s # from
            res == init_atomic_transfer(part[a], from, to, 1)
        IN /\ part[a].reg.nonce < MaxTransfers
           /\ part' = [part EXCEPT ![a] = res.part]
           /\ last' = PartCall("InitAtomicTransfer", a, [from |-> from, to |-> to], res)
           /\ hist' = IF res.code = "Ok"
                      THEN [hist EXCEPT !.minted = @ \cup {res.ret[1]}, !.inits = @ + 1]
                      ELSE hist
           /\ UNCHANGED <<registry, net>>

\* Actor::prapre_atomic_transfer: prepares, then sends PreCommit.
PrepareAtomicTransfer(a) ==
    \E input_ids \in InputIdMaps :
        LET res == prep_atomic_transfer(part[a], a, input_ids)
            pr == <<a, atomic_exec_coordinator>>
            msg == CoordMsg(METHOD_PRE_COMMIT, input_ids, res.ret[1], COMMIT_ATOMIC_TRANSFER)
        IN /\ Len(net[pr]) < MaxQueue
           /\ part' = [part EXCEPT ![a] = res.part]
           /\ net' = IF res.code = "Ok" THEN [net EXCEPT ![pr] = Append(@, msg)] ELSE net
           /\ last' = PartCall("PrepareAtomicTransfer", a, [input_ids |-> input_ids], res)
           /\ UNCHANGED <<registry, hist>>

\* Actor::abort_atomic_transfer: sends Revoke, whatever the registry holds.
AbortAtomicTransfer(a) ==
    \E input_ids \in InputIdMaps :
        LET pr == <<a, atomic_exec_coordinator>>
            exec_id == compute_exec_id(input_ids)
            msg == CoordMsg(METHOD_REVOKE, input_ids, exec_id, ROLLBACK_ATOMIC_TRANSFER)
        IN /\ Len(net[pr]) < MaxQueue
           /\ net' = [net EXCEPT ![pr] = Append(@, msg)]
           /\ last' = [op |-> "AbortAtomicTransfer", who |-> a,
                       arg |-> [input_ids |-> input_ids], code |-> "Ok",
                       ret |-> NoneOpt, panics |-> {}]
           /\ UNCHANGED <<registry, part, hist>>

\* The gateway's SendCross for the messages the coordinator emitted.
SendAll(queues, msgs) ==
    [pr \in Pairs |->
        queues[pr] \o SelectSeq(msgs, LAMBDA m : pr = <<atomic_exec_coordinator, m.to>>)]

\* The gateway delivers the next message of participant `a` to the
\* coordinator: invoke_method dispatches on the method number.
DeliverToCoordinator(a) ==
    LET pr == <<a, atomic_exec_coordinator>>
    IN /\ net[pr] # << >>
       /\ \A b \in Participants : Len(net[<<atomic_exec_coordinator, b>>]) < MaxQueue
       /\ LET m == Head(net[pr])
              q == [net EXCEPT ![pr] = Tail(@)]
              pm == m.params
          IN \E order \in EntryOrders(registry, a, pm.actors, pm.exec_id) :
               LET res == IF m.method = METHOD_PRE_COMMIT
                          THEN pre_commit(registry, ipc_gateway_address, a, pm.actors,
                                          pm.exec_id, pm.callback, order)
                          ELSE revoke(registry, ipc_gateway_address, a, pm.actors,
                                      pm.exec_id, pm.callback)
                   call == Call(IF m.method = METHOD_PRE_COMMIT THEN "PreCommit" ELSE "Revoke",
                                registry, ipc_gateway_address, a, pm.actors, pm.exec_id,
                                pm.callback, res)
               IN /\ registry' = res.registry
                  /\ net' = SendAll(q, res.msgs)
                  /\ last' = call
                  /\ hist' = CoordHist(hist, call)
                  /\ UNCHANGED part

\* The gateway delivers the next message of the coordinator to participant
\* `a`: Actor::commit_atomic_transfer or Actor::rollback_atomic_transfer.
DeliverToParticipant(a) ==
    LET pr == <<atomic_exec_coordinator, a>>
    IN /\ net[pr] # << >>
       /\ LET m == Head(net[pr])
              commit == m.method = COMMIT_ATOMIC_TRANSFER
              res == IF commit
                     THEN actor_commit_atomic_transfer(part[a], ipc_gateway_address,
                                                       atomic_exec_coordinator, m.params)
                     ELSE actor_rollback_atomic_transfer(part[a], ipc_gateway_address,
                                                         atomic_exec_coordinator, m.params)
              what == IF commit THEN "commit" ELSE "rollback"
          IN /\ net' = [net EXCEPT ![pr] = Tail(@)]
             /\ part' = [part EXCEPT ![a] = res.part]
             /\ last' = PartCall(m.method, a, [exec_id |-> m.params], res)
             /\ hist' = [hist EXCEPT
                           !.delivered = IF hist.deliveries
                                         THEN @ \cup {<<a, m.params, what>>} ELSE @,
                           !.applied = IF res.code = "Ok"
                                       THEN @ \cup {<<a, m.params, what>>} ELSE @]
             /\ UNCHANGED registry

Next ==
    \E a \in Participants :
        \/ InitAtomicTransfer(a)
        \/ PrepareAtomicTransfer(a)
        \/ AbortAtomicTransfer(a)
        \/ DeliverToCoordinator(a)
        \/ DeliverToParticipant(a)

Spec == Init /\ [][Next]_vars

(***************************************************************************)
(* Properties of the coordinator's handlers                                *)
(***************************************************************************)
\* The slots recorded under (exec_id, actors), none when the key is absent.
SlotsOf(reg, exec_id, actors) ==
    IF <<exec_id, actors>> \in DOMAIN reg THEN reg[<<exec_id, actors>>] ELSE EmptyMap

IsWrappedMsg(m, to, method, exec_id) ==
    m = [to |-> to, method |-> method, params |-> exec_id, wrapped |-> TRUE]

Accepted(call, op) == call.op = op /\ call.code = "Ok"

\* C3: a PreCommit that completes the set emits one batch: one wrapped
\* message per actor, to that actor, with the commit method the actor
\* registered and params = exec_id; the entry is absent after the call.
C3_CompleteEmitsOneBatch ==
    [][(Accepted(last', "PreCommit") /\ last'.ret = "true") =>
        LET c == last'
            pre == SlotsOf(registry, c.exec_id, c.actors)
            Registered(a, method) ==
                \/ a = c.from /\ method = c.method
                \/ a # c.from /\ a \in DOMAIN pre /\ method = pre[a]
        IN /\ Len(c.msgs) = Cardinality(c.actors)
           /\ \A a \in c.actors :
                 \E i \in DOMAIN c.msgs :
                    /\ Registered(a, c.msgs[i].method)
                    /\ IsWrappedMsg(c.msgs[i], a, c.msgs[i].method, c.exec_id)
           /\ <<c.exec_id, c.actors>> \notin DOMAIN registry']_vars

C3_Witness ==
    /\ Accepted(last, "PreCommit") /\ last.ret = "true"
    /\ \E i, j \in DOMAIN last.msgs : last.msgs[i].method # last.msgs[j].method

\* C4: an accepted PreCommit returns true exactly when the entry, with the
\* slot of `from` recorded, has a slot for every actor; otherwise it returns
\* false, emits nothing and the stored entry is the former one plus the slot
\* from -> commit.
C4_PreCommitResult ==
    [][Accepted(last', "PreCommit") =>
        LET c == last'
            key == <<c.exec_id, c.actors>>
            pre == SlotsOf(registry, c.exec_id, c.actors)
            complete == \A a \in c.actors : a \in (DOMAIN pre) \cup {c.from}
        IN /\ c.ret = (IF complete THEN "true" ELSE "false")
           /\ ~complete =>
                /\ c.msgs = << >>
                /\ key \in DOMAIN registry'
                /\ DOMAIN registry'[key] = (DOMAIN pre) \cup {c.from}
                /\ registry'[key][c.from] = c.method
                /\ \A a \in (DOMAIN pre) \ {c.from} : registry'[key][a] = pre[a]]_vars

C4_Witness ==
    /\ Accepted(last, "PreCommit") /\ last.ret = "false"
    /\ <<last.exec_id, last.actors>> \in DOMAIN registry
    /\ registry[<<last.exec_id, last.actors>>][last.from] = last.method

\* C5: PreCommit or Revoke from an immediate caller other than the gateway
\* is rejected with Forbidden, emits nothing and leaves the registry as is.
C5_NotGatewayForbidden ==
    [][(last'.op \in {"PreCommit", "Revoke"} /\ last'.caller # "gateway") =>
        /\ last'.code = "Forbidden"
        /\ last'.msgs = << >>
        /\ registry' = registry]_vars

C5_Witness ==
    /\ last.op = "Revoke" /\ last.caller = "other" /\ last.code = "Forbidden"
    /\ last.from \in last.actors
    /\ registry # EmptyMap

\* C6: PreCommit or Revoke delivered by the gateway whose origin is not
\* in actors returns IllegalArgument, emits nothing and leaves the registry
\* as is.
C6_OriginNotInActors ==
    [][(/\ last'.op \in {"PreCommit", "Revoke"}
        /\ last'.caller = "gateway"
        /\ last'.from \notin last'.actors) =>
        /\ last'.code = "IllegalArgument"
        /\ last'.msgs = << >>
        /\ registry' = registry]_vars

C6_Witness ==
    /\ last.op = "PreCommit" /\ last.caller = "gateway"
    /\ last.from \notin last.actors /\ last.code = "IllegalArgument"
    /\ <<last.exec_id, last.actors>> \in DOMAIN registry

\* C7: an accepted Revoke emits exactly one wrapped message, to `from`,
\* with method params.rollback and params = exec_id, whether or not the
\* entry existed or held a slot of `from`.
C7_RevokeEmitsOneRollback ==
    [][(/\ last'.op = "Revoke"
        /\ last'.caller = "gateway"
        /\ last'.from \in last'.actors) =>
        /\ last'.code = "Ok"
        /\ Len(last'.msgs) = 1
        /\ IsWrappedMsg(last'.msgs[1], last'.from, last'.method, last'.exec_id)]_vars

\* An accepted Revoke for a key that had no entry.
C7_Witness ==
    /\ Accepted(last, "Revoke") /\ last.method = "m2"
    /\ ~last.existed
    /\ Len(last.msgs) = 1

\* C9: a PreCommit or Revoke for (E, A) leaves the entry of every other key
\* as it was, and completion of (E, A) is decided from the slots of (E, A).
C9_KeyedByExecIdAndActors ==
    [][last'.op \in {"PreCommit", "Revoke"} =>
        LET c == last'
            key == <<c.exec_id, c.actors>>
            pre == SlotsOf(registry, c.exec_id, c.actors)
        IN /\ \A k \in ((DOMAIN registry) \cup (DOMAIN registry')) \ {key} :
                 /\ k \in DOMAIN registry
                 /\ k \in DOMAIN registry'
                 /\ registry'[k] = registry[k]
           /\ c.ret = "true" => c.actors \subseteq (DOMAIN pre) \cup {c.from}]_vars

\* A PreCommit for (E, A) that does not complete although the missing
\* actor has a slot under (E, A') with A' # A.
C9_Witness ==
    /\ Accepted(last, "PreCommit") /\ last.ret = "false"
    /\ \E k \in DOMAIN registry :
          /\ k[1] = last.exec_id
          /\ k[2] # last.actors
          /\ (last.actors \ {last.from}) \subseteq DOMAIN registry[k]
          /\ DOMAIN registry[k] # {}

\* C2: once a Revoke for a key was processed before the key's set was
\* complete, no commit batch is ever emitted for that key.
C2_NoCommitAfterEarlyRevoke == hist.revokedEarly \cap hist.committed = {}


(***************************************************************************)
(* Properties of the composed system                                       *)
(***************************************************************************)
\* C1: atomicity.  No execution has one participant that applied its commit
\* and another participant that applied its rollback for the same exec_id.
C1_Atomicity ==
    \A x \in hist.applied, y \in hist.applied :
        (x[2] = y[2] /\ x[1] # y[1]) => x[3] = y[3]

\* C8: an accepted Revoke from p for (E, A) removes p's slot only: the
\* other slots of the entry keep their methods, the entry stays in the
\* coordinator's state, no participant's registry or lock bit changes, and
\* only the queue towards p receives a message.
C8_RevokeRemovesOwnSlotOnly ==
    [][Accepted(last', "Revoke") =>
        LET key == <<last'.exec_id, last'.actors>>
            before == SlotsOf(registry, last'.exec_id, last'.actors)
        IN /\ key \in DOMAIN registry'
           /\ DOMAIN registry'[key] = DOMAIN before \ {last'.from}
           /\ \A q \in DOMAIN before \ {last'.from} : registry'[key][q] = before[q]
           /\ \A k \in DOMAIN registry \ {key} :
                  k \in DOMAIN registry' /\ registry'[k] = registry[k]
           /\ part' = part
           /\ \A q \in Participants \ {last'.from} :
                  net'[<<atomic_exec_coordinator, q>>] = net[<<atomic_exec_coordinator, q>>]
           /\ Len(net'[<<atomic_exec_coordinator, last'.from>>])
                  = Len(net[<<atomic_exec_coordinator, last'.from>>]) + 1]_vars

\* A Revoke from p was accepted while a peer q holds a pre-commitment in the
\* same entry, has the execution prepared and its account locked.
C8_Witness ==
    /\ Accepted(last, "Revoke")
    /\ last.had
    /\ \E q \in Participants \ {last.from} :
         /\ q \in DOMAIN SlotsOf(registry, last.exec_id, last.actors)
         /\ last.exec_id \in DOMAIN part[q].reg.exec_ids
         /\ \E s \in Slices : is_locked(part[q].slices[s])

(***************************************************************************)
(* Properties of the registry                                              *)
(***************************************************************************)
\* C10: within one registry every successful init_atomic_exec returns an
\* input ID no earlier init returned, and the nonce counts the successful
\* inits: it grows by one with each of them.
C10_InputIdsUnique ==
    /\ Cardinality(hist.minted) = hist.inits
    /\ part["a1"].reg.nonce = hist.inits

\* Two different input IDs were returned for the same slices and the same
\* input, the second one after the first had been consumed.
C10_Witness ==
    /\ last.op = "init" /\ last.code = "Ok"
    /\ \E id \in hist.minted :
         /\ id # last.ret[1]
         /\ id[3] = last.ret[1][3]
         /\ id[4] = last.ret[1][4]
         /\ id \notin DOMAIN part["a1"].reg.input_ids

\* The content-ids of the slices of `state` that are not locked in `sl`, in
\* the order of `state`.
UnlockedCids(sl, state) ==
    LET un == SelectSeq(state, LAMBDA s : ~sl[s].locked)
    IN [i \in 1..Len(un) |-> <<"cid", FALSE, sl[un[i]].state>>]

\* The input entry a prepare call finds, and the slices it names.
PrepEntry == part["a1"].reg.input_ids[last'.arg.own_input_id]
PrepFound ==
    /\ last'.op = "prepare"
    /\ last'.arg.own_input_id \in DOMAIN part["a1"].reg.input_ids

\* C11: prepare_atomic_exec of a known input ID succeeds only when the
\* content-ids of the slices not locked at the call, in order, are the
\* unlocked_state_cids init recorded (it then returns Ok, or panics on an
\* exec ID collision), and fails with StateCidMismatch otherwise; so it
\* fails when a slice recorded by init differs at prepare in payload or
\* lock bit.
C11_PrepareChecksCids ==
    [][PrepFound =>
        LET state == input_fn(PrepEntry.input)
            cids == PrepEntry.unlocked_state_cids
            same == UnlockedCids(part["a1"].slices, state) = cids
            drifted == /\ Len(cids) = Len(state)
                       /\ \E i \in 1..Len(state) :
                            cid_from_cbor(part["a1"].slices[state[i]]) # cids[i]
        IN /\ same => last'.code \in {"Ok", "Panic"}
           /\ ~same => last'.code = "StateCidMismatch"
           /\ drifted => last'.code = "StateCidMismatch"]_vars

\* A prepare failed with StateCidMismatch for an input whose init recorded
\* its first slice unlocked (lock_now = false).
C11_Witness ==
    /\ last.op = "prepare" /\ last.code = "StateCidMismatch"
    /\ last.arg.own_input_id[3] # << >>
    /\ last.arg.own_input_id[3][1][2] = FALSE

\* C12: a prepare that fails with StateCidMismatch leaves the lock bit of
\* every slice of the input as it was before the call.
C12_MismatchKeepsLocks ==
    [][(PrepFound /\ last'.code = "StateCidMismatch") =>
        \A s \in Range(input_fn(PrepEntry.input)) :
            part'["a1"].slices[s].locked = part["a1"].slices[s].locked]_vars

\* The slices of the execution `e` that has an output entry in registry `r`.
ExecSlices(r, e) == Range(output_state(r.exec_ids[e].output))

\* C13, the "if" half: every slice of an execution that is past prepare, so
\* has an output entry, and not yet past commit or rollback is locked.
C13_PreparedSlicesLocked ==
    \A e \in DOMAIN part["a1"].reg.exec_ids :
        \A s \in ExecSlices(part["a1"].reg, e) : part["a1"].slices[s].locked

\* C14: while an execution keeps its output entry, no call unlocks a locked
\* slice of it or changes the payload of one.
C14_PreparedStaysLocked ==
    [][\A e \in DOMAIN part["a1"].reg.exec_ids \cap DOMAIN part'["a1"].reg.exec_ids :
          \A s \in ExecSlices(part["a1"].reg, e) :
              part["a1"].slices[s].locked =>
                  /\ part'["a1"].slices[s].locked
                  /\ part'["a1"].slices[s].state = part["a1"].slices[s].state]_vars

\* A commit or rollback call that returned Ok for an execution whose
\* prepare is on record.
Finished(call, op) ==
    /\ call.op = op /\ call.code = "Ok"
    /\ call.arg.exec_id \in DOMAIN hist.prepared

\* C15: a successful prepare leaves every slice of the execution locked; a
\* successful commit of the exec_id leaves them unlocked and the output
\* entry gone, with the payloads of prepare time changed by apply_fn only.
C15_PrepareCommitRoundTrip ==
    [][/\ (PrepFound /\ last'.code = "Ok") =>
              \A s \in Range(input_fn(PrepEntry.input)) : part'["a1"].slices[s].locked
       /\ Finished(last', "commit") =>
              LET e == last'.arg.exec_id
                  output == part["a1"].reg.exec_ids[e].output
                  atPrepare == [s \in Slices |-> new(hist.prepared[e][s])]
                  expected == ApplyNext(output, atPrepare).slices
              IN /\ e \notin DOMAIN part'["a1"].reg.exec_ids
                 /\ \A s \in ExecSlices(part["a1"].reg, e) :
                        /\ ~part'["a1"].slices[s].locked
                        /\ part'["a1"].slices[s].state = expected[s].state]_vars

\* C16: a successful rollback of a prepared exec_id leaves every slice of
\* the execution unlocked with the payload it had at prepare, and the
\* output entry gone.
C16_PrepareRollbackRoundTrip ==
    [][Finished(last', "rollback") =>
          LET e == last'.arg.exec_id
          IN /\ e \notin DOMAIN part'["a1"].reg.exec_ids
             /\ \A s \in ExecSlices(part["a1"].reg, e) :
                    /\ ~part'["a1"].slices[s].locked
                    /\ part'["a1"].slices[s].state = hist.prepared[e][s]]_vars

\* A cancel that returns Ok for the input ID the call before it, an init,
\* returned.
InitThenCancel ==
    /\ last.op = "init" /\ last.code = "Ok"
    /\ last'.op = "cancel" /\ last'.code = "Ok"
    /\ last'.arg.input_id = last.ret[1]

\* C17, the lock bits: init followed by cancel of the returned input ID
\* leaves every slice of the input with the lock bit it had before init.
\* That bit is FALSE when init locked (lock would have failed on a locked
\* slice) and the bit init left when it did not lock.
C17_InitCancelRestoresLocks ==
    [][InitThenCancel =>
          \A s \in Range(last.arg.input.state) :
              part'["a1"].slices[s].locked =
                  (IF last.arg.lock_now THEN FALSE ELSE part["a1"].slices[s].locked)]_vars

\* C18: commit_atomic_exec of an exec ID that has no output entry fails
\* with UnknownExecID and leaves the registry, the lock bits and the
\* payloads as they were, whatever apply_fn it was given.
C18_CommitUnknownExecId ==
    [][(last'.op = "commit"
        /\ last'.arg.exec_id \notin DOMAIN part["a1"].reg.exec_ids) =>
          /\ last'.code = "UnknownExecID"
          /\ part'["a1"].reg = part["a1"].reg
          /\ \A s \in Slices :
                /\ part'["a1"].slices[s].locked = part["a1"].slices[s].locked
                /\ part'["a1"].slices[s].state = part["a1"].slices[s].state]_vars

\* A commit with an apply_fn that would succeed was refused for an exec ID
\* that had been prepared and is consumed since, the slice being unlocked.
C18_Witness ==
    /\ last.op = "commit" /\ last.code = "UnknownExecID"
    /\ last.arg.apply_ok
    /\ last.arg.exec_id \in DOMAIN hist.prepared
    /\ ~part["a1"].slices["s1"].locked

\* The input ID a cancel or prepare call names, the exec ID a commit or
\* rollback call names.
InputIdOf(call) ==
    IF call.op = "cancel" THEN call.arg.input_id ELSE call.arg.own_input_id
InputIdsOf(p) == DOMAIN p["a1"].reg.input_ids
ExecIdsOf(p) == DOMAIN p["a1"].reg.exec_ids

\* C19: the lifecycle of the registry.  An input ID enters the input map
\* by the init that returns it and leaves it with the cancel or prepare
\* that names it, after which cancel and prepare fail with UnknownInputID
\* and the ID never comes back.  An exec ID enters the exec map by the
\* prepare that returns it and leaves it with the commit or rollback that
\* names it; commit and rollback of an exec ID not in the map fail with
\* UnknownExecID, so no commit succeeds without a prepare before it.
C19_Lifecycle ==
    [][/\ last'.op \in {"cancel", "prepare"} =>
            IF InputIdOf(last') \in InputIdsOf(part)
            THEN last'.code # "Panic" =>
                     InputIdsOf(part') = InputIdsOf(part) \ {InputIdOf(last')}
            ELSE last'.code = "UnknownInputID" /\ part' = part
       /\ last'.op \notin {"cancel", "prepare"} => InputIdsOf(part) \subseteq InputIdsOf(part')
       /\ InputIdsOf(part') \ InputIdsOf(part) # {} =>
            /\ last'.op = "init" /\ last'.code = "Ok"
            /\ InputIdsOf(part') \ InputIdsOf(part) = {last'.ret[1]}
       /\ \A id \in hist.minted \ InputIdsOf(part) : id \notin InputIdsOf(part')
       /\ last'.op \in {"commit", "rollback"} =>
            IF last'.arg.exec_id \in ExecIdsOf(part)
            THEN last'.code # "Panic" =>
                     ExecIdsOf(part') = ExecIdsOf(part) \ {last'.arg.exec_id}
            ELSE last'.code = "UnknownExecID" /\ part' = part
       /\ last'.op \notin {"commit", "rollback"} => ExecIdsOf(part) \subseteq ExecIdsOf(part')
       /\ ExecIdsOf(part') \ ExecIdsOf(part) # {} =>
            /\ last'.op = "prepare" /\ last'.code = "Ok"
            /\ ExecIdsOf(part') \ ExecIdsOf(part) = {last'.ret[1]}]_vars

\* A cancel failed with UnknownInputID for an input ID whose execution is
\* prepared: the prepare consumed it.
C19_Witness ==
    /\ last.op = "cancel" /\ last.code = "UnknownInputID"
    /\ compute_exec_id([a \in {"a1"} |-> last.arg.input_id]) \in ExecIdsOf(part)
    /\ compute_exec_id([a \in {"a1"} |-> last.arg.input_id]) \in DOMAIN hist.prepared

\* C20: init_atomic_exec given a slice that is locked fails with
\* AlreadyLocked, with lock_now true or false, and mints no input ID.
C20_InitOnLockedFails ==
    [][(last'.op = "init"
        /\ \E s \in Range(last'.arg.input.state) : part["a1"].slices[s].locked) =>
          /\ last'.code = "AlreadyLocked"
          /\ hist'.minted = hist.minted
          /\ part'["a1"].reg = part["a1"].reg]_vars

(***************************************************************************)
(* C21: cancel_atomic_exec on a known input ID succeeds, deletes the entry *)
(* of that ID and of no other, and leaves every slice its input names      *)
(* unlocked, whether the slice was locked or not; it touches no other lock *)
(* bit, no payload and no exec entry.  On an unknown input ID it fails     *)
(* with UnknownInputID and changes neither the registry nor the slices.    *)
(***************************************************************************)
C21_Cancel ==
    [][last'.op = "cancel" =>
         LET r == part["a1"].reg
             id == last'.arg.input_id
         IN IF id \in DOMAIN r.input_ids
            THEN /\ last'.code = "Ok"
                 /\ part'["a1"].reg = [r EXCEPT !.input_ids = Del(@, id)]
                 /\ \A s \in Slices :
                       /\ part'["a1"].slices[s].state = part["a1"].slices[s].state
                       /\ part'["a1"].slices[s].locked =
                             IF s \in Range(input_fn(r.input_ids[id].input))
                             THEN FALSE ELSE part["a1"].slices[s].locked
            ELSE /\ last'.code = "UnknownInputID"
                 /\ part' = part]_vars

\* A cancel succeeded on an input over s1 and s2 that was made with
\* lock = false while s1 was locked and s2 was not; the input that locked s1
\* is still registered and nothing was prepared, so s1 was still locked
\* and s2 still unlocked when the cancel ran, and both are unlocked now.
C21_Witness ==
    /\ last.op = "cancel"
    /\ last.code = "Ok"
    /\ last.arg.input_id[4].state = <<"s1", "s2">>
    /\ Len(last.arg.input_id[3]) = 2
    /\ last.arg.input_id[3][1][2] = TRUE
    /\ last.arg.input_id[3][2][2] = FALSE
    /\ Cardinality(hist.minted) = 2
    /\ Cardinality(DOMAIN part["a1"].reg.input_ids) = 1
    /\ DOMAIN part["a1"].reg.exec_ids = {}
    /\ \A s \in Slices : ~part["a1"].slices[s].locked

(***************************************************************************)
(* C22: rollback_atomic_exec never fails because state is missing: called  *)
(* for an exec ID that has no output entry it succeeds and leaves the      *)
(* registry and the slices as they were.                                   *)
(***************************************************************************)
C22_RollbackUnknownSucceeds ==
    [][(last'.op = "rollback"
        /\ last'.arg.exec_id \notin DOMAIN part["a1"].reg.exec_ids) =>
          /\ last'.code = "Ok"
          /\ part' = part]_vars

(***************************************************************************)
(* LockSpec: two lockable states driven by arbitrary calls of new, load,   *)
(* flush, modify, lock, unlock and cid                                     *)
(***************************************************************************)
StateCall(op, sid, v, ok, err, ret) ==
    [op |-> op, arg |-> [slice |-> sid, value |-> v],
     code |-> IF ok THEN "Ok" ELSE err, ret |-> ret, panics |-> {}]

StateApply(sid, s, call) ==
    /\ part' = [part EXCEPT !["a1"].slices[sid] = s]
    /\ last' = call
    /\ UNCHANGED <<registry, net, hist>>

StateLock ==
    \E sid \in Slices :
        LET l == lock(part["a1"].slices[sid])
        IN StateApply(sid, l.s, StateCall("lock", sid, None, l.ok, "AlreadyLocked", NoneOpt))

StateUnlock ==
    \E sid \in Slices :
        LET u == unlock(part["a1"].slices[sid])
        IN StateApply(sid, u.s, StateCall("unlock", sid, None, u.ok, "NotLocked", NoneOpt))

StateModify ==
    \E sid \in Slices, v \in Values :
        LET m == modify(part["a1"].slices[sid], v)
        IN StateApply(sid, m.s, StateCall("modify", sid, v, m.ok, "StateLocked", NoneOpt))

StateCid ==
    \E sid \in Slices :
        LET c == cid(part["a1"].slices[sid])
        IN StateApply(sid, c.s, StateCall("cid", sid, None, TRUE, None, Some(c.cid)))

\* Further calls of LockSpec.  The variable `registry` holds the blockstore
\* there: the blocks flushed so far, by content-id.
StateNew ==
    \E sid \in Slices, v \in Values :
        StateApply(sid, new(v), StateCall("new", sid, v, TRUE, None, NoneOpt))

StateFlush ==
    \E sid \in Slices :
        LET f == flush(part["a1"].slices[sid], registry)
        IN /\ part' = [part EXCEPT !["a1"].slices[sid] = f.s]
           /\ registry' = f.bs
           /\ last' = StateCall("flush", sid, None, TRUE, None, Some(f.cid))
           /\ UNCHANGED <<net, hist>>

StateLoad ==
    \E sid \in Slices, c \in DOMAIN registry :
        LET l == load(c, registry)
        IN /\ l # NoneOpt
           /\ StateApply(sid, l[1], StateCall("load", sid, c, TRUE, None, NoneOpt))

LockNext ==
    \/ StateLock
    \/ StateUnlock
    \/ StateModify
    \/ StateCid
    \/ StateNew
    \/ StateFlush
    \/ StateLoad

LockSpec == RegInit /\ [][LockNext]_vars

\* The slice a call of LockSpec was made on, before and after the call.
Before == part["a1"].slices[last'.arg.slice]
After == part'["a1"].slices[last'.arg.slice]

(***************************************************************************)
(* C24: lock and unlock are not idempotent: lock on a locked state fails   *)
(* with AlreadyLocked, unlock on an unlocked state fails with NotLocked,   *)
(* and a failing call leaves the lock bit, the payload and the cached      *)
(* content-id of the state as they were.                                   *)
(***************************************************************************)
C24_LockUnlockErrors ==
    [][/\ (last'.op = "lock" /\ Before.locked) =>
             last'.code = "AlreadyLocked" /\ After = Before
       /\ (last'.op = "unlock" /\ ~Before.locked) =>
             last'.code = "NotLocked" /\ After = Before
       /\ (last'.op \in {"lock", "unlock"} /\ last'.code # "Ok") =>
             part' = part]_vars

\* A second lock in a row failed on a state whose content-id is cached, and
\* the cache is still there.
C24_Witness ==
    /\ last.op = "lock"
    /\ last.code = "AlreadyLocked"
    /\ part["a1"].slices[last.arg.slice].locked
    /\ part["a1"].slices[last.arg.slice].cid # NoneOpt


\* Two lockable states with the same lock bit and payload have the same
\* content-id, whatever their caches hold.
EqualContentEqualCid(sl) ==
    \A s \in Slices, t \in Slices :
        (sl[s].locked = sl[t].locked /\ sl[s].state = sl[t].state) =>
            cid(sl[s]).cid = cid(sl[t]).cid

(***************************************************************************)
(* C25 as stated: the content-id of a lockable state is equal for any two  *)
(* states with equal (locked, payload), and the content-id after any       *)
(* successful lock, unlock or modify differs from the one before it.       *)
(***************************************************************************)
C25_CidChangesOnEveryWrite ==
    /\ []EqualContentEqualCid(part["a1"].slices)
    /\ [][(last'.op \in {"lock", "unlock", "modify"} /\ last'.code = "Ok") =>
             cid(After).cid # cid(Before).cid]_vars

(***************************************************************************)
(* C25 amended: the content-id of a lockable state is equal for any two    *)
(* states with equal (locked, payload); it differs after every successful  *)
(* lock or unlock, and after a successful modify it differs exactly when   *)
(* the payload stored differs from the payload before.                     *)
(***************************************************************************)
C25_CidFollowsContent ==
    /\ []EqualContentEqualCid(part["a1"].slices)
    /\ [][/\ (last'.op \in {"lock", "unlock"} /\ last'.code = "Ok") =>
                cid(After).cid # cid(Before).cid
          /\ (last'.op = "modify" /\ last'.code = "Ok") =>
                (cid(After).cid # cid(Before).cid <=> After.state # Before.state)]_vars

\* A modify succeeded on a state whose content-id was taken before, and
\* the other state has the same lock bit and payload now, one with a cached
\* content-id and one without.
C25_Witness ==
    /\ last.op = "modify"
    /\ last.code = "Ok"
    /\ part["a1"].slices["s1"].locked = part["a1"].slices["s2"].locked
    /\ part["a1"].slices["s1"].state = part["a1"].slices["s2"].state
    /\ part["a1"].slices["s1"].state # 0
    /\ part["a1"].slices["s1"].cid # part["a1"].slices["s2"].cid

(***************************************************************************)
(* CallbackSpec: one fungible-token participant whose commit and rollback  *)
(* handlers are invoked by any caller with a cross-message of any origin   *)
(***************************************************************************)
\* The origins a cross-message may name: the coordinator or another actor.
Origins == {atomic_exec_coordinator, "a2"}

CallbackInit ==
    /\ registry = EmptyMap
    /\ net = EmptyMap
    /\ last = NoCall
    /\ hist = InitHist(TRUE)
    /\ part = [a \in {"a1"} |->
                 [reg |-> new_registry,
                  slices |-> [s \in Slices |-> new(IF s = "s1" THEN 1 ELSE 0)]]]

CallbackInitTransfer ==
    \E from \in Slices :
        LET to == CHOOSE s \in Slices : s # from
            res == init_atomic_transfer(part["a1"], from, to, 1)
        IN /\ part["a1"].reg.nonce < MaxNonce
           /\ part' = [part EXCEPT !["a1"] = res.part]
           /\ last' = PartCall("InitAtomicTransfer", "a1", [from |-> from, to |-> to], res)
           /\ hist' = IF res.code = "Ok"
                      THEN [hist EXCEPT !.minted = @ \cup {res.ret[1]}, !.inits = @ + 1]
                      ELSE hist
           /\ UNCHANGED <<registry, net>>

CallbackPrepare ==
    \E input_ids \in RegInputIdMaps :
        LET res == prep_atomic_transfer(part["a1"], "a1", input_ids)
        IN /\ part' = [part EXCEPT !["a1"] = res.part]
           /\ last' = PartCall("PrepareAtomicTransfer", "a1", [input_ids |-> input_ids], res)
           /\ UNCHANGED <<registry, net, hist>>

CallbackCommit ==
    \E caller \in Callers, from \in Origins, exec_id \in RegExecIds :
        LET res == actor_commit_atomic_transfer(part["a1"], caller, from, exec_id)
        IN /\ part' = [part EXCEPT !["a1"] = res.part]
           /\ last' = PartCall(COMMIT_ATOMIC_TRANSFER, "a1",
                               [caller |-> caller, from |-> from, exec_id |-> exec_id], res)
           /\ UNCHANGED <<registry, net, hist>>

CallbackRollback ==
    \E caller \in Callers, from \in Origins, exec_id \in RegExecIds :
        LET res == actor_rollback_atomic_transfer(part["a1"], caller, from, exec_id)
        IN /\ part' = [part EXCEPT !["a1"] = res.part]
           /\ last' = PartCall(ROLLBACK_ATOMIC_TRANSFER, "a1",
                               [caller |-> caller, from |-> from, exec_id |-> exec_id], res)
           /\ UNCHANGED <<registry, net, hist>>

CallbackNext ==
    \/ CallbackInitTransfer
    \/ CallbackPrepare
    \/ CallbackCommit
    \/ CallbackRollback

CallbackSpec == CallbackInit /\ [][CallbackNext]_vars

(***************************************************************************)
(* C26: the commit and rollback callbacks of a participant return          *)
(* Forbidden and change no state when the cross-message's `from` is not    *)
(* the configured coordinator, also when the immediate caller is the       *)
(* gateway and the exec ID is a currently prepared one.  The formula is    *)
(* the claim at the case it singles out: the caller is the gateway and the *)
(* exec ID is prepared.                                                    *)
(***************************************************************************)
C26_ForeignOriginForbidden ==
    [][(/\ last'.op \in {COMMIT_ATOMIC_TRANSFER, ROLLBACK_ATOMIC_TRANSFER}
        /\ last'.arg.from # atomic_exec_coordinator
        /\ last'.arg.caller = ipc_gateway_address
        /\ last'.arg.exec_id \in DOMAIN part["a1"].reg.exec_ids) =>
          /\ last'.code = "Forbidden"
          /\ part' = part]_vars

(***************************************************************************)
(* HappySpec: the participants a1 and a2, the gateway and the coordinator, *)
(* with no Revoke and with fair delivery on every queue.  Every account    *)
(* starts with balance 1, a participant may begin MaxLiveTransfers         *)
(* transfers and the participants together MaxLiveInits.                   *)
(***************************************************************************)
MaxLiveTransfers == 2
MaxLiveInits == 3
LiveActors == {"a1", "a2"}

\* The input IDs a participant can mint and the maps made of them.
LiveInputIds ==
    {<<"input", n, << >>, AtomicTransfer(from, CHOOSE s \in Slices : s # from, 1)>> :
        n \in 0..(MaxLiveTransfers - 1), from \in Slices}
LiveMaps == [LiveActors -> LiveInputIds]

HappyInit ==
    /\ registry = EmptyMap
    /\ net = [pr \in Pairs |-> << >>]
    /\ last = NoCall
    /\ hist = InitHist(TRUE)
    /\ part = [a \in Participants |->
                 [reg |-> new_registry, slices |-> [s \in Slices |-> new(1)]]]

\* Actor::init_atomic_transfer, called by the owner of account `from`,
\* while the participants have begun fewer than `max` transfers.
LiveInitTransfer(a, max) ==
    \E from \in Slices :
        LET to == CHOOSE s \in Slices : s # from
            res == init_atomic_transfer(part[a], from, to, 1)
        IN /\ part[a].reg.nonce < MaxLiveTransfers
           /\ hist.inits < max
           /\ part' = [part EXCEPT ![a] = res.part]
           /\ last' = PartCall("InitAtomicTransfer", a, [from |-> from, to |-> to], res)
           /\ hist' = IF res.code = "Ok"
                      THEN [hist EXCEPT !.minted = @ \cup {res.ret[1]}, !.inits = @ + 1]
                      ELSE hist
           /\ UNCHANGED <<registry, net>>

HappyInitTransfer(a) == LiveInitTransfer(a, MaxLiveInits)

\* Actor::prapre_atomic_transfer with a map over the two participants that
\* names an input ID the participant holds.
HappyPrepare(a) ==
    \E input_ids \in [LiveActors -> hist.minted] :
        LET res == prep_atomic_transfer(part[a], a, input_ids)
            pr == <<a, atomic_exec_coordinator>>
            msg == CoordMsg(METHOD_PRE_COMMIT, input_ids, res.ret[1], COMMIT_ATOMIC_TRANSFER)
        IN /\ input_ids[a] \in DOMAIN part[a].reg.input_ids
           /\ Len(net[pr]) < MaxQueue
           /\ part' = [part EXCEPT ![a] = res.part]
           /\ net' = IF res.code = "Ok" THEN [net EXCEPT ![pr] = Append(@, msg)] ELSE net
           /\ last' = PartCall("PrepareAtomicTransfer", a, [input_ids |-> input_ids], res)
           /\ hist' = IF res.code = "Ok"
                      THEN [hist EXCEPT !.preparedBy = @ \cup {<<a, res.ret[1]>>}]
                      ELSE hist
           /\ UNCHANGED registry

HappyNext ==
    \E a \in LiveActors :
        \/ HappyInitTransfer(a)
        \/ HappyPrepare(a)
        \/ DeliverToCoordinator(a)
        \/ DeliverToParticipant(a)

\* Fair per-pair delivery: a queue that holds a message is served.
FairDelivery ==
    \A a \in LiveActors :
        /\ WF_vars(DeliverToCoordinator(a))
        /\ WF_vars(DeliverToParticipant(a))

HappySpec == HappyInit /\ [][HappyNext]_vars /\ FairDelivery

\* The participants of the execution `e`: the keys of the map it is the
\* digest of.
ActorsOf(e) == DOMAIN e[2]

\* The account participant `a` put into the execution `e`.
AccountOf(a, e) == e[2][a][4].state[1]

\* Every participant of `e` has prepared it (and sent its PreCommit).
AllPrepared(e) == \A a \in ActorsOf(e) : <<a, e>> \in hist.preparedBy

\* Every participant of `e` has committed it.
AllCommitted(e) == \A a \in ActorsOf(e) : <<a, e, "commit">> \in hist.applied

(***************************************************************************)
(* C27: happy path: when every participant of an execution has prepared    *)
(* with the same map of input IDs and sent its PreCommit, and nobody sends *)
(* Revoke, the coordinator dispatches a commit message to each participant *)
(* when it processes the last PreCommit, and under fair FIFO delivery      *)
(* every participant eventually has committed, its account of the          *)
(* execution unlocked by the commit.                                       *)
(***************************************************************************)
C27_HappyPath ==
    /\ [][(/\ last'.op = "PreCommit"
           /\ last'.code = "Ok"
           /\ \A b \in last'.actors \ {last'.from} :
                 b \in DOMAIN LoadEntry(registry, ExecKey(last'.exec_id, last'.actors))) =>
             {last'.msgs[i].to : i \in 1..Len(last'.msgs)} = last'.actors]_vars
    /\ [][(last'.op = COMMIT_ATOMIC_TRANSFER /\ last'.code = "Ok") =>
             ~part'[last'.who].slices[AccountOf(last'.who, last'.arg.exec_id)].locked]_vars
    /\ <>[](\A p \in hist.preparedBy : AllPrepared(p[2]) => AllCommitted(p[2]))

(***************************************************************************)
(* RevokeSpec: HappySpec with participants that send Revoke for an         *)
(* execution they hold prepared, a record of every cross-message           *)
(* delivered to a participant, and MaxRevokeInits transfers in all         *)
(***************************************************************************)
MaxRevokeInits == 2

RevokeInit ==
    /\ registry = EmptyMap
    /\ net = [pr \in Pairs |-> << >>]
    /\ last = NoCall
    /\ hist = [InitHist(TRUE) EXCEPT !.deliveries = TRUE]
    /\ part = [a \in Participants |->
                 [reg |-> new_registry, slices |-> [s \in Slices |-> new(1)]]]

\* Actor::abort_atomic_transfer for an execution the participant holds
\* prepared and has not revoked before: sends Revoke to the coordinator.
RevokeAbort(a) ==
    \E input_ids \in [LiveActors -> hist.minted] :
        LET pr == <<a, atomic_exec_coordinator>>
            exec_id == compute_exec_id(input_ids)
            msg == CoordMsg(METHOD_REVOKE, input_ids, exec_id, ROLLBACK_ATOMIC_TRANSFER)
        IN /\ exec_id \in DOMAIN part[a].reg.exec_ids
           /\ <<a, exec_id>> \notin hist.revoked
           /\ Len(net[pr]) < MaxQueue
           /\ net' = [net EXCEPT ![pr] = Append(@, msg)]
           /\ last' = [op |-> "AbortAtomicTransfer", who |-> a,
                       arg |-> [input_ids |-> input_ids], code |-> "Ok",
                       ret |-> NoneOpt, panics |-> {}]
           /\ hist' = [hist EXCEPT !.revoked = @ \cup {<<a, exec_id>>}]
           /\ UNCHANGED <<registry, part>>

RevokeInitTransfer(a) == LiveInitTransfer(a, MaxRevokeInits)

RevokeNext ==
    \E a \in LiveActors :
        \/ RevokeInitTransfer(a)
        \/ HappyPrepare(a)
        \/ RevokeAbort(a)
        \/ DeliverToCoordinator(a)
        \/ DeliverToParticipant(a)

RevokeSpec == RevokeInit /\ [][RevokeNext]_vars /\ FairDelivery

(***************************************************************************)
(* C28: revoke-driven release: a participant that has prepared an          *)
(* execution and then sends Revoke for it eventually, under fair FIFO      *)
(* delivery, receives a rollback message for it from the coordinator and   *)
(* ends with the output entry of the execution removed; the step that      *)
(* removes the entry leaves the account of the execution unlocked.         *)
(***************************************************************************)
C28_RevokeReleases ==
    /\ <>[](\A r \in hist.revoked :
               /\ <<r[1], r[2], "rollback">> \in hist.delivered
               /\ r[2] \notin DOMAIN part[r[1]].reg.exec_ids)
    /\ [][\A a \in LiveActors : \A e \in DOMAIN part[a].reg.exec_ids :
             e \notin DOMAIN part'[a].reg.exec_ids =>
                ~part'[a].slices[AccountOf(a, e)].locked]_vars

\* A participant sent Revoke for an execution it had prepared, the rollback
\* was delivered and rolled the execution back: the entry is gone and the
\* account unlocked.
C28_Witness ==
    \E r \in hist.revoked :
        /\ <<r[1], r[2], "rollback">> \in hist.applied
        /\ r[2] \notin DOMAIN part[r[1]].reg.exec_ids
        /\ ~part[r[1]].slices[AccountOf(r[1], r[2])].locked

(***************************************************************************)
(* C29: a successful init_atomic_exec with lock = true leaves every        *)
(* supplied slice locked and stores an empty unlocked_state_cids; with     *)
(* lock = false it changes no lock bit and stores the content-ids the      *)
(* slices have, in the order of the slices; in both cases it stores        *)
(* {unlocked_state_cids, input} under the ID it returns, which was not     *)
(* registered before, and increases the nonce by exactly one.              *)
(***************************************************************************)
C29_InitEffect ==
    [][(last'.op = "init" /\ last'.code = "Ok") =>
         LET p == part["a1"]
             q == part'["a1"]
             input == last'.arg.input
             id == last'.ret[1]
             cids == IF last'.arg.lock_now THEN << >>
                     ELSE [i \in 1..Len(input.state) |->
                              cid_from_cbor(p.slices[input.state[i]])]
         IN /\ id \notin DOMAIN p.reg.input_ids
            /\ q.reg = [p.reg EXCEPT
                          !.nonce = @ + 1,
                          !.input_ids = Put(@, id, [unlocked_state_cids |-> cids,
                                                    input |-> input])]
            /\ \A s \in Slices :
                  /\ q.slices[s].state = p.slices[s].state
                  /\ q.slices[s].locked =
                        IF last'.arg.lock_now /\ s \in Range(input.state)
                        THEN TRUE ELSE p.slices[s].locked
                  /\ (last'.arg.lock_now /\ s \in Range(input.state)) =>
                        ~p.slices[s].locked]_vars

\* An init with lock = false over s1 and s2 succeeded while the two slices
\* had different content, and the entry holds their content-ids in order.
C29_Witness ==
    /\ last.op = "init"
    /\ last.code = "Ok"
    /\ ~last.arg.lock_now
    /\ last.arg.input.state = <<"s1", "s2">>
    /\ last.ret[1] \in DOMAIN part["a1"].reg.input_ids
    /\ LET cids == part["a1"].reg.input_ids[last.ret[1]].unlocked_state_cids
       IN /\ Len(cids) = 2
          /\ cids[1] # cids[2]
          /\ cids[1] = cid_from_cbor(part["a1"].slices["s1"])

(***************************************************************************)
(* C30: when apply_fn returns an error inside commit_atomic_exec, the      *)
(* caller gets the error after every slice of the execution has been       *)
(* unlocked and the output entry has been deleted: the exec ID is no       *)
(* longer registered, and a commit or rollback of an exec ID that is not   *)
(* registered fails.                                                       *)
(***************************************************************************)
C30_ApplyErrorAfterRelease ==
    [][/\ (/\ last'.op = "commit"
           /\ ~last'.arg.apply_ok
           /\ last'.arg.exec_id \in DOMAIN part["a1"].reg.exec_ids
           /\ last'.code # "Panic") =>
             /\ last'.code = "ApplyError"
             /\ part'["a1"].reg =
                   [part["a1"].reg EXCEPT !.exec_ids = Del(@, last'.arg.exec_id)]
             /\ \A s \in Slices :
                   /\ part'["a1"].slices[s].state = part["a1"].slices[s].state
                   /\ part'["a1"].slices[s].locked =
                         IF s \in ExecSlices(part["a1"].reg, last'.arg.exec_id)
                         THEN FALSE ELSE part["a1"].slices[s].locked
       /\ last'.code = "ApplyError" =>
             last'.op = "commit" /\ last'.arg.exec_id \notin DOMAIN part'["a1"].reg.exec_ids
       /\ (/\ last'.op \in {"commit", "rollback"}
           /\ last'.arg.exec_id \notin DOMAIN part["a1"].reg.exec_ids) =>
             last'.code = "UnknownExecID"]_vars

\* The commit of the one execution begun, over s1 and s2 locked at init,
\* returned the error of apply_fn: the entry is gone and both slices are
\* unlocked.
C30_Witness ==
    /\ last.op = "commit"
    /\ last.code = "ApplyError"
    /\ Cardinality(hist.minted) = 1
    /\ \A id \in hist.minted : id[3] = << >> /\ id[4].state = <<"s1", "s2">>
    /\ DOMAIN part["a1"].reg.exec_ids = {}
    /\ \A s \in Slices : ~part["a1"].slices[s].locked

(***************************************************************************)
(* C31: cache coherence: in every reachable state of a lockable state,     *)
(* after any sequence of new, load, flush, get_mut, modify, lock, unlock   *)
(* and cid calls, a cached content-id, when present, is the content-id of  *)
(* the current (locked, payload); hence cid() returns the content-id of    *)
(* the current content.                                                    *)
(***************************************************************************)
C31_CacheCoherence ==
    \A s \in Slices :
        /\ part["a1"].slices[s].cid # NoneOpt =>
              part["a1"].slices[s].cid[1] = cid_from_cbor(part["a1"].slices[s])
        /\ cid(part["a1"].slices[s]).cid = cid_from_cbor(part["a1"].slices[s])

\* A state was loaded from a block flushed by the other state, then
\* modified and locked, and its content-id taken again: the cache holds the
\* content-id of the new content, not that of the block.
C31_Witness ==
    /\ last.op = "cid"
    /\ registry # EmptyMap
    /\ LET s == part["a1"].slices[last.arg.slice]
       IN /\ s.cid # NoneOpt
          /\ s.locked
          /\ s.state # 0
          /\ s.cid[1] \notin DOMAIN registry

\* The inputs and executions of registry `r` on whose behalf slice `s` is
\* locked: the inputs initialised with lock = true over `s` (they store no
\* content-id) and the prepared executions over `s`.
Holders(r, s) ==
    {id \in DOMAIN r.input_ids :
        /\ r.input_ids[id].unlocked_state_cids = << >>
        /\ s \in Range(input_fn(r.input_ids[id].input))}
    \cup {e \in DOMAIN r.exec_ids : s \in ExecSlices(r, e)}

(***************************************************************************)
(* C32: cancel_atomic_exec of one input never unlocks a slice that is held *)
(* locked on behalf of a different in-flight input or execution of the     *)
(* same registry.                                                          *)
(***************************************************************************)
C32_CancelKeepsOthersLocks ==
    [][last'.op = "cancel" =>
         \A s \in Slices :
            (/\ part["a1"].slices[s].locked
             /\ Holders(part["a1"].reg, s) \ {last'.arg.input_id} # {}) =>
                part'["a1"].slices[s].locked]_vars

(***************************************************************************)
(* C33: mutual exclusion of prepared executions: in every reachable state  *)
(* of the registry every slice referenced by a stored output entry is      *)
(* locked and no slice is referenced by two stored output entries, so the  *)
(* unlock().unwrap() of commit_atomic_exec and rollback_atomic_exec does   *)
(* not panic on a known exec ID.                                           *)
(***************************************************************************)
C33_PreparedMutex ==
    LET r == part["a1"].reg
    IN /\ \A e \in DOMAIN r.exec_ids :
             \A s \in ExecSlices(r, e) : part["a1"].slices[s].locked
       /\ \A e1 \in DOMAIN r.exec_ids, e2 \in DOMAIN r.exec_ids :
             e1 # e2 => ExecSlices(r, e1) \cap ExecSlices(r, e2) = {}
       /\ last.op \in {"commit", "rollback"} =>
             "unlock of a state not locked" \notin last.panics

(***************************************************************************)
(* C34: an init_atomic_exec that fails (lock_now = true, a supplied slice  *)
(* already locked) leaves the lock bit of every supplied slice, the nonce  *)
(* and the input map exactly as before the call.                           *)
(***************************************************************************)
C34_FailedInitNoEffect ==
    [][(last'.op = "init" /\ last'.code = "AlreadyLocked") =>
          /\ \A s \in Range(last'.arg.input.state) :
                part'["a1"].slices[s].locked = part["a1"].slices[s].locked
          /\ part'["a1"].reg.nonce = part["a1"].reg.nonce
          /\ part'["a1"].reg.input_ids = part["a1"].reg.input_ids]_vars

(***************************************************************************)
(* C35: the collision assertion of init_atomic_exec holds in every         *)
(* reachable state: an init that inserts a freshly minted input ID, not    *)
(* present in the input map, completes without panic and returns the ID.   *)
(***************************************************************************)
C35_InitAssertionHolds ==
    (last.op = "init" /\ last.code = "Ok") =>
        "input ID collision" \notin last.panics

(***************************************************************************)
(* C36: the "exec ID collision" assertion of prepare_atomic_exec holds in  *)
(* every reachable state: no sequence of init and prepare calls on one     *)
(* registry makes prepare store an output under an exec ID that already    *)
(* has an output entry.                                                    *)
(***************************************************************************)
C36_ExecAssertionHolds ==
    last.op = "prepare" => "exec ID collision" \notin last.panics

(***************************************************************************)
(* C37: after every completed coordinator invocation each stored entry of  *)
(* a key (exec_id, actors) holds slots only for members of actors and      *)
(* never for all of them (a complete entry does not persist), and a        *)
(* repeated PreCommit of one participant overwrites its slot: it returns   *)
(* false, leaves the set of slots as it was and stores the new method.     *)
(***************************************************************************)
C37_EntriesPartial ==
    [][/\ \A key \in DOMAIN registry' :
             /\ DOMAIN registry'[key] \subseteq key[2]
             /\ DOMAIN registry'[key] # key[2]
       /\ (last'.op = "PreCommit" /\ last'.code = "Ok" /\ last'.had) =>
             LET key == ExecKey(last'.exec_id, last'.actors)
             IN /\ last'.ret = "false"
                /\ key \in DOMAIN registry'
                /\ DOMAIN registry'[key] = DOMAIN registry[key]
                /\ registry'[key][last'.from] = last'.method]_vars

\* A participant has pre-committed again, with the other method: its slot
\* holds the new method and the entry is still incomplete.
C37_Witness ==
    /\ last.op = "PreCommit" /\ last.code = "Ok" /\ last.had
    /\ last.method = "m2"
    /\ LET key == ExecKey(last.exec_id, last.actors)
       IN /\ key \in DOMAIN registry
          /\ DOMAIN registry[key] = {last.from}
          /\ registry[key][last.from] = "m2"

(***************************************************************************)
(* C38: in the fungible-token participant, once prep_atomic_transfer has   *)
(* succeeded for an execution, a later commit_atomic_transfer for its exec *)
(* ID succeeds and applies the transfer, whatever other transfers were     *)
(* initiated on the same actor in between: a commit message delivered for  *)
(* an execution the participant holds prepared returns Ok, removes the     *)
(* output entry and moves the amount from the account of the execution to  *)
(* the recipient.                                                          *)
(***************************************************************************)
C38_CommitAfterPrepare ==
    [][(/\ last'.op = COMMIT_ATOMIC_TRANSFER
        /\ last'.arg.exec_id \in DOMAIN part[last'.who].reg.exec_ids) =>
          LET p == part[last'.who]
              q == part'[last'.who]
              out == p.reg.exec_ids[last'.arg.exec_id].output
              from == out.state[1]
          IN /\ last'.code = "Ok"
             /\ last'.arg.exec_id \notin DOMAIN q.reg.exec_ids
             /\ q.slices[from].state = p.slices[from].state - out.data.amount
             /\ q.slices[out.data.to].state = p.slices[out.data.to].state + out.data.amount]_vars

=============================================================================
